---- MODULE Spec2Model ----
(***************************************************************************)
(* A model of argmap (github.com/zorzr/argmap): the argument kinds, the    *)
(* registration entry points of the parser and of commands, the ordering   *)
(* of a collection and the left-to-right scan of the input tokens.         *)
(*                                                                         *)
(* Strings are TLA+ strings, "-" + f.Short is "-" \o f.Short.  An error is *)
(* the sequence of the pieces its format string is filled with, so that    *)
(* strings.Contains / strings.Replace on a message can be computed; the    *)
(* nil error is the empty sequence.  A scope is named by the path of       *)
(* command names that leads to it, << >> being the ArgsParser itself.      *)
(***************************************************************************)
EXTENDS Integers, Sequences, FiniteSets, TLC

VARIABLES
    argsList,   \* scope path -> the argsList slice of that parser / command
    prog,       \* the name of the host program that uses the library
    pc,         \* index of the host's next registration call
    parses,     \* number of Parse calls made so far
    regErr,     \* error returned by the latest registration call (<< >>: nil)
    osArgs,     \* os.Args as seen by the latest Parse call
    outcome,    \* what the latest Parse call produced
    exited,     \* os.Exit was called: the process is gone
    lastCall,   \* the latest registration call, as the host made it
    history     \* the Parse calls made so far: tokens given, what came back

vars == <<argsList, prog, pc, parses, regErr, osArgs, outcome, exited, lastCall,
          history>>

-----------------------------------------------------------------------------
(* Bounds of the model *)

MaxLen == 3              \* longest input (tokens after the program name)
MaxCalls == 2            \* registration calls of the host that tries any call

ProjectName == "argmap"

-----------------------------------------------------------------------------
(* Argument kinds *)

orderPositionalReq == 1
orderPositionalOpt == 2
orderStringFlag == 3
orderListFlag == 4
orderBoolFlag == 5
orderHelpFlag == 9
orderCommand == 10

\* sort.Slice: slices of at most MaxInsertion elements are insertion sorted, and
\* the gap of the pass that older releases run before it.
MaxInsertion == 12
ShellGap == 6

StringFlag(Name, Short, NArgs, Vars, Help) ==
    [type |-> "StringFlag", Name |-> Name, Short |-> Short, NArgs |-> NArgs,
     Vars |-> Vars, Help |-> Help]

ListFlag(Name, Short, Var, Help) ==
    [type |-> "ListFlag", Name |-> Name, Short |-> Short, Var |-> Var, Help |-> Help]

BoolFlag(Name, Short, Help) ==
    [type |-> "BoolFlag", Name |-> Name, Short |-> Short, Help |-> Help]

PositionalArg(Name, Help, Required) ==
    [type |-> "PositionalArg", Name |-> Name, Help |-> Help, Required |-> Required]

HelpFlag(Help) == [type |-> "HelpFlag", Help |-> Help]

\* The argsList and helpGen of a command live under its path in argsList.
Command(name, Help) == [type |-> "Command", name |-> name, Help |-> Help]

CommandParams(Name, Help) == [Name |-> Name, Help |-> Help]

ShortArg(f) == IF f.type = "HelpFlag" THEN "-h" ELSE "-" \o f.Short

LongArg(f) == IF f.type = "HelpFlag" THEN "--help" ELSE "--" \o f.Name

\* StringFlag.GetID, ListFlag.GetID, BoolFlag.GetID
Flag_GetID(f) == IF f.Name # "" THEN f.Name ELSE f.Short

\* StringFlag.Represent, ListFlag.Represent, BoolFlag.Represent
Flag_Represent(f) ==
    IF f.Name # "" /\ f.Short # "" THEN <<ShortArg(f), LongArg(f)>>
    ELSE IF f.Name # "" THEN <<LongArg(f)>>
    ELSE <<ShortArg(f)>>

PositionalArg_GetID(a) == a.Name

PositionalArg_Represent(a) == << >>

PositionalArg_getOrder(a) ==
    IF a.Required THEN orderPositionalReq ELSE orderPositionalOpt

HelpFlag_GetID(f) == "help"

HelpFlag_Represent(f) == <<ShortArg(f), LongArg(f)>>

Command_GetID(c) == c.name

Command_Represent(c) == <<c.name>>

\* The Argument interface: dynamic dispatch on the concrete type.
GetID(a) ==
    CASE a.type = "PositionalArg" -> PositionalArg_GetID(a)
      [] a.type = "HelpFlag" -> HelpFlag_GetID(a)
      [] a.type = "Command" -> Command_GetID(a)
      [] OTHER -> Flag_GetID(a)

Represent(a) ==
    CASE a.type = "PositionalArg" -> PositionalArg_Represent(a)
      [] a.type = "HelpFlag" -> HelpFlag_Represent(a)
      [] a.type = "Command" -> Command_Represent(a)
      [] OTHER -> Flag_Represent(a)

getOrder(a) ==
    CASE a.type = "PositionalArg" -> PositionalArg_getOrder(a)
      [] a.type = "StringFlag" -> orderStringFlag
      [] a.type = "ListFlag" -> orderListFlag
      [] a.type = "BoolFlag" -> orderBoolFlag
      [] a.type = "HelpFlag" -> orderHelpFlag
      [] a.type = "Command" -> orderCommand

-----------------------------------------------------------------------------
(* The host programs *)

Top == << >>

Reg(op, scope, arg) == [op |-> op, scope |-> scope, arg |-> arg]

NoCall == Reg("none", Top, "")

\* more: how much longer than MaxLen the command lines of the program may be;
\* again: what a second Parse call is given ("any" input, the "same" input, or
\* the first input with one token "moved"); late: the host goes on with its
\* calls after it has parsed.
Program(calls, tokens, n) ==
    [calls |-> calls, tokens |-> tokens, parses |-> n, more |-> 0, again |-> "any",
     late |-> FALSE]

Late(p) == [p EXCEPT !.late = TRUE]

Longer(p, more) == [p EXCEPT !.more = more]

Again(p, how) == [p EXCEPT !.again = how]

\* Flags of every kind, then a required, an optional and a required positional.
ProgFlags ==
  Program(
    <<Reg("NewStringFlag", Top, StringFlag("hello", "hi", 1, <<"name">>, "greets you")),
      Reg("NewBoolFlag", Top, BoolFlag("test", "t", "just trying")),
      Reg("NewListFlag", Top, ListFlag("list", "l", "item", "give me stuff")),
      Reg("NewPositionalArg", Top, PositionalArg("a", "", TRUE)),
      Reg("NewPositionalArg", Top, PositionalArg("b", "", FALSE)),
      Reg("NewPositionalArg", Top, PositionalArg("c", "", TRUE))>>,
    {"-hi", "--hello", "-t", "-l", "-h", "x", "y"}, 1)

\* A flag of two values, an optional positional registered before a required one.
ProgPair ==
  Program(
    <<Reg("NewStringFlag", Top, StringFlag("", "hi", 2, << >>, "")),
      Reg("NewPositionalArg", Top, PositionalArg("a", "", FALSE)),
      Reg("NewPositionalArg", Top, PositionalArg("b", "", TRUE))>>,
    {"-hi", "--help", "x", "y", "[*]"}, 1)

\* TestCorrectPositional_TwoRequiredOneOptional
ProgPositionals ==
  Program(
    <<Reg("NewPositionalArg", Top, PositionalArg("a", "", TRUE)),
      Reg("NewPositionalArg", Top, PositionalArg("b", "", FALSE)),
      Reg("NewPositionalArg", Top, PositionalArg("c", "", TRUE))>>,
    {"-h", "x", "y"}, 2)

\* Flags of the parser, a command with its own flag and positional, and a
\* subcommand.
ProgCommands ==
  Program(
    <<Reg("NewListFlag", Top, ListFlag("", "l", "", "")),
      Reg("NewBoolFlag", Top, BoolFlag("", "t", "")),
      Reg("NewCommand", Top, CommandParams("run", "")),
      Reg("NewStringFlag", <<"run">>, StringFlag("hello", "hi", 0, << >>, "")),
      Reg("NewPositionalArg", <<"run">>, PositionalArg("a", "", TRUE)),
      Reg("NewCommand", <<"run">>, CommandParams("fast", "")),
      Reg("NewBoolFlag", <<"run", "fast">>, BoolFlag("", "hi", ""))>>,
    {"-l", "-t", "run", "-hi", "fast", "-h", "x", "[*]"}, 1)

\* TestSubcommandArguments: -hi is a BoolFlag of run and a StringFlag of fast;
\* hello is that StringFlag and a positional of fast's sibling.
ProgSubcommands ==
  Longer(Program(
    <<Reg("NewCommand", Top, CommandParams("run", "")),
      Reg("NewBoolFlag", <<"run">>, BoolFlag("", "hi", "")),
      Reg("NewCommand", <<"run">>, CommandParams("fast", "")),
      Reg("NewStringFlag", <<"run", "fast">>, StringFlag("hello", "hi", 0, << >>, "")),
      Reg("NewCommand", <<"run">>, CommandParams("slow", "")),
      Reg("NewPositionalArg", <<"run", "slow">>, PositionalArg("hello", "", TRUE))>>,
    {"run", "-hi", "fast", "Roger"}, 1), 2)

\* A flag with a value, a flag without, two positionals; the command line is
\* parsed, one token is moved and it is parsed again.
ProgMove ==
  Again(Program(
    <<Reg("NewStringFlag", Top, StringFlag("hello", "hi", 1, << >>, "")),
      Reg("NewBoolFlag", Top, BoolFlag("", "t", "")),
      Reg("NewPositionalArg", Top, PositionalArg("a", "", TRUE)),
      Reg("NewPositionalArg", Top, PositionalArg("b", "", FALSE))>>,
    {"-hi", "-t", "x", "y"}, 2), "moved")

\* Twelve arguments, two of every rank, next to the help flag; the same command
\* line is parsed twice.
ProgMany ==
  Again(Program(
    <<Reg("NewPositionalArg", Top, PositionalArg("a", "", TRUE)),
      Reg("NewPositionalArg", Top, PositionalArg("b", "", TRUE)),
      Reg("NewPositionalArg", Top, PositionalArg("c", "", FALSE)),
      Reg("NewPositionalArg", Top, PositionalArg("d", "", FALSE)),
      Reg("NewStringFlag", Top, StringFlag("s1", "", 1, << >>, "")),
      Reg("NewStringFlag", Top, StringFlag("s2", "", 1, << >>, "")),
      Reg("NewListFlag", Top, ListFlag("l1", "", "", "")),
      Reg("NewListFlag", Top, ListFlag("l2", "", "", "")),
      Reg("NewBoolFlag", Top, BoolFlag("b1", "", "")),
      Reg("NewBoolFlag", Top, BoolFlag("b2", "", "")),
      Reg("NewCommand", Top, CommandParams("c1", "")),
      Reg("NewCommand", Top, CommandParams("c2", ""))>>,
    {"x"}, 2), "same")

\* A host that sets the help message and registers before and after it parses.
ProgHelp ==
  Late(Program(
    <<Reg("NewPositionalArg", Top, PositionalArg("a", "", FALSE)),
      Reg("SetHelpFlagMessage", Top, "usage"),
      Reg("NewBoolFlag", Top, BoolFlag("", "h", ""))>>,
    {"-h", "x"}, 1))

\* TestCorrectListFlagFull
ProgListFull ==
  Longer(Program(
    <<Reg("NewStringFlag", Top, StringFlag("hello", "", 0, << >>, "greets you")),
      Reg("NewBoolFlag", Top, BoolFlag("test", "t", "just trying")),
      Reg("NewListFlag", Top, ListFlag("list", "l", "item", "give me stuff"))>>,
    {"-t", "-l", "--list", "a"}, 1), 1)

\* TestCorrectListFlagPartial
ProgListPartial ==
  Longer(Program(
    <<Reg("NewBoolFlag", Top, BoolFlag("test", "t", "just trying")),
      Reg("NewListFlag", Top, ListFlag("", "l", "", ""))>>,
    {"-l", "a", "b", "-t"}, 1), 2)

\* The arguments a host may try to register, the valid and the invalid ones.
Candidates ==
    [NewStringFlag |->
        {StringFlag("", "hi", 0, << >>, ""),
         StringFlag("hi", "", 0, << >>, ""),
         StringFlag("", "n", 0, << >>, ""),
         StringFlag("name", "n", 2, <<"first">>, ""),
         StringFlag("", "", 0, <<"first", "second">>, ""),
         StringFlag("", "h", 0, <<"first", "second">>, "")},
     NewBoolFlag |->
        {BoolFlag("n", "", ""), BoolFlag("", "", ""), BoolFlag("", "h", ""),
         BoolFlag("help", "", "")},
     NewListFlag |-> {ListFlag("", "", "", ""), ListFlag("", "hi", "", "")},
     NewPositionalArg |->
        {PositionalArg("", "", TRUE), PositionalArg("hi", "", TRUE),
         PositionalArg("help", "", FALSE), PositionalArg("h", "", FALSE)},
     NewCommand |->
        {CommandParams("", ""), CommandParams("run", ""), CommandParams("hi", "")},
     SetHelpFlagMessage |-> {"usage"}]

\* A host that makes MaxCalls calls, any of them, on any scope it has.
AnyCall == Reg("any", Top, "")

ProgFree == Program([k \in 1..MaxCalls |-> AnyCall], {"run"}, 1)

Programs ==
    {"flags", "pair", "positionals", "commands", "subcommands", "move", "many",
     "help", "listfull", "listpartial", "free"}

\* The host program: its registration calls, in order, the vocabulary of its
\* command lines and the number of Parse calls it makes.
Host ==
    CASE prog = "flags" -> ProgFlags
      [] prog = "pair" -> ProgPair
      [] prog = "positionals" -> ProgPositionals
      [] prog = "commands" -> ProgCommands
      [] prog = "subcommands" -> ProgSubcommands
      [] prog = "move" -> ProgMove
      [] prog = "many" -> ProgMany
      [] prog = "help" -> ProgHelp
      [] prog = "listfull" -> ProgListFull
      [] prog = "listpartial" -> ProgListPartial
      [] prog = "free" -> ProgFree

-----------------------------------------------------------------------------
(* Registration *)

NoError == << >>

contains(arr, val) == \E k \in 1..Len(arr) : arr[k] = val

\* The representations of b that a already has, in the order of b.Represent().
clash(a, b) == SelectSeq(Represent(b), LAMBDA r : contains(Represent(a), r))

\* checkIdentifiers comparing the ids only.
checkIdentifiers_ids(list, b) ==
    IF \E k \in 1..Len(list) : GetID(list[k]) = GetID(b)
    THEN <<"Error: identifier '", GetID(b), "' already exists">>
    ELSE NoError

\* The loop returns at the first argument of the list that shares the id or a
\* representation with b; the id is compared first.
checkIdentifiers(list, b) ==
    LET bad == {k \in 1..Len(list) :
                    GetID(list[k]) = GetID(b) \/ clash(list[k], b) # << >>}
    IN  IF bad = {} THEN NoError
        ELSE LET k == CHOOSE m \in bad : \A o \in bad : m <= o
             IN  IF GetID(list[k]) = GetID(b)
                 THEN <<"Error: identifier '", GetID(b), "' already exists">>
                 ELSE <<"Error: representation '", clash(list[k], b)[1],
                        "' already exists">>

RECURSIVE padVars(_, _)
padVars(Vars, NArgs) ==
    IF Len(Vars) < NArgs THEN padVars(Append(Vars, "value"), NArgs) ELSE Vars

\* checkStringFlag taking NArgs as it was given.
checkStringFlag_asGiven(list, f) ==
    LET n == f.NArgs
        g == [f EXCEPT !.NArgs = n, !.Vars = padVars(f.Vars, n)]
    IN  IF f.Name = "" /\ f.Short = ""
        THEN [arg |-> f, err |-> <<"Error: at least one identifier must be specified">>]
        ELSE IF Len(f.Vars) > n
        THEN [arg |-> g, err |-> <<"Error: too many value names specified (expected ",
                                   ToString(n), ", got ", ToString(Len(f.Vars)), ")">>]
        ELSE [arg |-> g, err |-> checkIdentifiers(list, g)]

\* The checks NewStringFlag makes before it appends: the stored flag and the error.
checkStringFlag(list, f) ==
    LET n == IF f.NArgs < 1 THEN 1 ELSE f.NArgs
        g == [f EXCEPT !.NArgs = n, !.Vars = padVars(f.Vars, n)]
    IN  IF f.Name = "" /\ f.Short = ""
        THEN [arg |-> f, err |-> <<"Error: at least one identifier must be specified">>]
        ELSE IF Len(f.Vars) > n
        THEN [arg |-> g, err |-> <<"Error: too many value names specified (expected ",
                                   ToString(n), ", got ", ToString(Len(f.Vars)), ")">>]
        ELSE [arg |-> g, err |-> checkIdentifiers(list, g)]

checkBoolFlag(list, f) ==
    IF f.Name = "" /\ f.Short = ""
    THEN <<"Error: at least one identifier must be specified">>
    ELSE checkIdentifiers(list, f)

\* checkPositionalArg without the check of the name.
checkPositionalArg_unnamed(list, a) == checkIdentifiers(list, a)

checkPositionalArg(list, a) ==
    IF a.Name = "" THEN <<"Error: unspecified argument name">>
    ELSE checkIdentifiers(list, a)

Call == Host.calls[pc]

\* The host registers its arguments first and parses afterwards, unless it is
\* one that goes on registering.
Registering == ~exited /\ (parses = 0 \/ Host.late) /\ pc <= Len(Host.calls)

\* The calls of method op the host can make now: the one its program says, or,
\* for the host that tries any call, every candidate on every scope.
Offered(op) ==
    IF ~Registering THEN {}
    ELSE IF Call.op = "any"
    THEN {Reg(op, scope, arg) : scope \in DOMAIN argsList, arg \in Candidates[op]}
    ELSE IF Call.op = op /\ Call.scope \in DOMAIN argsList THEN {Call}
    ELSE {}

\* Register appending before the checks are looked at.
Register_unchecked(call, a, err) ==
    /\ regErr' = err
    /\ argsList' = [argsList EXCEPT ![call.scope] = Append(@, a)]
    /\ pc' = pc + 1
    /\ lastCall' = call
    /\ UNCHANGED <<prog, parses, osArgs, outcome, exited, history>>

\* newArgument, or the append of a Command method, on success; nothing on error.
Register(call, a, err) ==
    /\ regErr' = err
    /\ argsList' = IF err = NoError
                   THEN [argsList EXCEPT ![call.scope] = Append(@, a)]
                   ELSE argsList
    /\ pc' = pc + 1
    /\ lastCall' = call
    /\ UNCHANGED <<prog, parses, osArgs, outcome, exited, history>>

NewStringFlag ==
    \E call \in Offered("NewStringFlag") :
        /\ call.scope = Top
        /\ LET c == checkStringFlag(argsList[Top], call.arg)
           IN  Register(call, c.arg, c.err)

NewBoolFlag ==
    \E call \in Offered("NewBoolFlag") :
        /\ call.scope = Top
        /\ Register(call, call.arg, checkBoolFlag(argsList[Top], call.arg))

NewPositionalArg ==
    \E call \in Offered("NewPositionalArg") :
        /\ call.scope = Top
        /\ Register(call, call.arg, checkPositionalArg(argsList[Top], call.arg))

\* ArgsParser.NewListFlag and Command.NewListFlag: the same checks as NewBoolFlag
\* (README, "Inserting a ListFlag").
NewListFlag ==
    \E call \in Offered("NewListFlag") :
        Register(call, call.arg, checkBoolFlag(argsList[call.scope], call.arg))

\* The checks of NewSubcommand (and of NewCommand, which mirrors it).
checkCommand(list, param) ==
    IF param.Name = "" THEN <<"Error: unspecified subcommand name">>
    ELSE checkIdentifiers(list, Command(param.Name, param.Help))

\* Appends the command to the parent and creates its own collection, which holds
\* the implicit help flag.
RegisterCommand(call, param, err) ==
    /\ regErr' = err
    /\ argsList' =
         IF err # NoError THEN argsList
         ELSE LET sub == Append(call.scope, param.Name)
              IN  [s \in DOMAIN argsList \cup {sub} |->
                     IF s = sub THEN <<HelpFlag("shows command help and exits")>>
                     ELSE IF s = call.scope
                     THEN Append(argsList[s], Command(param.Name, param.Help))
                     ELSE argsList[s]]
    /\ pc' = pc + 1
    /\ lastCall' = call
    /\ UNCHANGED <<prog, parses, osArgs, outcome, exited, history>>

\* ArgsParser.NewCommand: as Command.NewSubcommand, on the parser's own list.
NewCommand ==
    \E call \in Offered("NewCommand") :
        /\ call.scope = Top
        /\ RegisterCommand(call, call.arg, checkCommand(argsList[Top], call.arg))

\* The calls of method op the host can make on a command.
CommandCall(op) == {call \in Offered(op) : call.scope # Top}

\* Command.NewStringFlag checking the list of the enclosing scope as well.
Command_NewStringFlag_enclosing ==
    \E call \in CommandCall("NewStringFlag") :
        LET outer == argsList[SubSeq(call.scope, 1, Len(call.scope) - 1)]
            c == checkStringFlag(argsList[call.scope] \o outer, call.arg)
        IN  Register(call, c.arg, c.err)

Command_NewStringFlag ==
    \E call \in CommandCall("NewStringFlag") :
        LET c == checkStringFlag(argsList[call.scope], call.arg)
        IN  Register(call, c.arg, c.err)

Command_NewBoolFlag ==
    \E call \in CommandCall("NewBoolFlag") :
        Register(call, call.arg, checkBoolFlag(argsList[call.scope], call.arg))

Command_NewPositionalArg ==
    \E call \in CommandCall("NewPositionalArg") :
        Register(call, call.arg, checkPositionalArg(argsList[call.scope], call.arg))

Command_NewSubcommand ==
    \E call \in CommandCall("NewCommand") :
        RegisterCommand(call, call.arg, checkCommand(argsList[call.scope], call.arg))

\* setHelp adding a help flag with the message m.
setHelp_added(list, m) == Append(list, HelpFlag(m))

\* The loop of SetHelpFlagMessage: the first help flag of the list is replaced by
\* one with the message m; a list without a help flag is left as it is.
setHelp(list, m) ==
    LET hits == {k \in 1..Len(list) : getOrder(list[k]) = orderHelpFlag}
    IN  IF hits = {} THEN list
        ELSE LET k == CHOOSE h \in hits : \A o \in hits : h <= o
             IN  [list EXCEPT ![k] = HelpFlag(m)]

ReplaceHelp(call) ==
    /\ argsList' = [argsList EXCEPT ![call.scope] = setHelp(@, call.arg)]
    /\ regErr' = NoError
    /\ pc' = pc + 1
    /\ lastCall' = call
    /\ UNCHANGED <<prog, parses, osArgs, outcome, exited, history>>

SetHelpFlagMessage ==
    \E call \in Offered("SetHelpFlagMessage") : call.scope = Top /\ ReplaceHelp(call)

Command_SetHelpFlagMessage ==
    \E call \in CommandCall("SetHelpFlagMessage") : ReplaceHelp(call)

-----------------------------------------------------------------------------
(* Ordering: sort.Slice(argsList, less) with less(i, j) = order(i) < order(j) *)

Less(list, i, j) == getOrder(list[i]) < getOrder(list[j])

Swap(list, i, j) == [list EXCEPT ![i] = list[j], ![j] = list[i]]

\* insertionSort: element i sinks while it is less than its left neighbour.
RECURSIVE sink(_, _)
sink(list, j) ==
    IF j > 1 /\ Less(list, j, j - 1) THEN sink(Swap(list, j, j - 1), j - 1)
    ELSE list

RECURSIVE insertionSortFrom(_, _)
insertionSortFrom(list, i) ==
    IF i > Len(list) THEN list ELSE insertionSortFrom(sink(list, i), i + 1)

insertionSort(list) == insertionSortFrom(list, 2)

\* The pass with gap 6 that the quickSort of Go releases before 1.19 makes on a
\* slice of 7 to 12 elements before its insertion sort.
RECURSIVE shellPassFrom(_, _)
shellPassFrom(list, i) ==
    IF i > Len(list) THEN list
    ELSE shellPassFrom(IF Less(list, i, i - ShellGap)
                       THEN Swap(list, i, i - ShellGap) ELSE list, i + 1)

shellPass(list) == shellPassFrom(list, ShellGap + 1)

IsSortedByOrder(list) ==
    \A i \in 1..Len(list) - 1 : getOrder(list[i]) <= getOrder(list[i + 1])

\* The ranks, ascending.
Ranks ==
    <<orderPositionalReq, orderPositionalOpt, orderStringFlag, orderListFlag,
      orderBoolFlag, orderHelpFlag, orderCommand>>

Without(seq, i) == SubSeq(seq, 1, i - 1) \o SubSeq(seq, i + 1, Len(seq))

RECURSIVE Orders(_)
Orders(seq) ==
    IF Len(seq) = 0 THEN {<< >>}
    ELSE UNION {{<<seq[i]>> \o rest : rest \in Orders(Without(seq, i))} :
                  i \in 1..Len(seq)}

RECURSIVE ArrangementsFrom(_, _)
ArrangementsFrom(list, r) ==
    IF r > Len(Ranks) THEN {<< >>}
    ELSE LET same == SelectSeq(list, LAMBDA a : getOrder(a) = Ranks[r])
         IN  UNION {{head \o tail : tail \in ArrangementsFrom(list, r + 1)} :
                       head \in Orders(same)}

\* Every arrangement of list that is ordered by rank.
Arrangements(list) == ArrangementsFrom(list, 1)

\* What sort.Slice may leave in the slice.  It is documented as not stable.  Up to
\* ShellGap elements every release runs a plain insertion sort; up to
\* MaxInsertion elements the releases before 1.19 run the gap pass first and the
\* later ones do not; above that the order of equal ranks is unspecified.
sortSlice(list) ==
    IF Len(list) <= ShellGap THEN {insertionSort(list)}
    ELSE IF Len(list) <= MaxInsertion
    THEN {insertionSort(list), insertionSort(shellPass(list))}
    ELSE Arrangements(list)

\* SortArgsList of the parser and of every command: one possible result each.
RECURSIVE sortEach(_, _)
sortEach(lists, scopes) ==
    IF scopes = {} THEN {[s \in {} |-> << >>]}
    ELSE LET s == CHOOSE x \in scopes : TRUE
         IN  UNION {{[x \in DOMAIN srt \cup {s} |-> IF x = s THEN l ELSE srt[x]] :
                        l \in sortSlice(lists[s])} :
                      srt \in sortEach(lists, scopes \ {s})}

SortArgsList(lists) == sortEach(lists, DOMAIN lists)

-----------------------------------------------------------------------------
(* The result mapping and the record of a scan *)

\* StringValue wrapping the string in a slice.
StringValue_slice(str) == [t |-> "slice", v |-> <<str>>]

StringValue(str) == [t |-> "string", v |-> str]        \* a positional: string
SliceValue(seq) == [t |-> "slice", v |-> seq]          \* a flag: []string
BoolValue(b) == [t |-> "bool", v |-> b]                \* a BoolFlag: bool
MapValue(m) == [t |-> "map", v |-> m]                  \* a command: nested map

EmptyMap == << >>

IsPresent(aMap, key) == key \in DOMAIN aMap

\* GetCommandMap ranges over the map, whose order is not fixed, and returns the
\* first entry that is a map: the answers it may give.
GetCommandMap(aMap) ==
    LET found == {key \in DOMAIN aMap : aMap[key].t = "map"}
    IN  IF found = {}
        THEN {[key |-> "", cmdMap |-> EmptyMap,
               err |-> <<"Error: no command found in map">>]}
        ELSE {[key |-> key, cmdMap |-> aMap[key].v, err |-> NoError] : key \in found}

\* Put leaving alone a key that is already there.
Put_keep(aMap, key, val) ==
    [k \in DOMAIN aMap \cup {key} |-> IF k \in DOMAIN aMap THEN aMap[k] ELSE val]

Put(aMap, key, val) ==
    [k \in DOMAIN aMap \cup {key} |-> IF k = key THEN val ELSE aMap[k]]

\* One token handled by a scan: its position among the input tokens, the scope
\* whose scan handled it, how it was handled and for which argument.
Event(idx, scope, role, id) == [idx |-> idx, scope |-> scope, role |-> role, id |-> id]

\* The running state of one scope's loop.  i is the loop index counted from the
\* first token of the scope (Go's index into the slice), so the token under the
\* index is args[i + 1].
StartScan(nPosArg) ==
    [kind |-> "scan", i |-> 0, argsMap |-> EmptyMap, nPosArg |-> nPosArg,
     err |-> NoError, trace |-> << >>, log |-> << >>, visited |-> {}]

-----------------------------------------------------------------------------
(* The scan *)

\* posArgs: the indices of the positionals of the sorted list.
posArgsOf(list) ==
    SelectSeq([k \in 1..Len(list) |-> k],
              LAMBDA k : getOrder(list[k]) <= orderPositionalOpt)

\* reprMap built from the flags only, the commands left out.
reprMapOf_flags(list, tok) ==
    LET hits == {k \in 1..Len(list) :
                    /\ getOrder(list[k]) > orderPositionalOpt
                    /\ getOrder(list[k]) < orderCommand
                    /\ contains(Represent(list[k]), tok)}
    IN  IF hits = {} THEN 0 ELSE CHOOSE k \in hits : \A o \in hits : o <= k

\* reprMap[tok]: the index of the argument tok represents, 0 when it is no key.
\* A later argument overwrites an earlier one with the same representation.
reprMapOf(list, tok) ==
    LET hits == {k \in 1..Len(list) :
                    /\ getOrder(list[k]) > orderPositionalOpt
                    /\ contains(Represent(list[k]), tok)}
    IN  IF hits = {} THEN 0 ELSE CHOOSE k \in hits : \A o \in hits : o <= k

Here(c, st) == c.base + st.i + 1

\* scanStringFlag reading its values from the flag token on.
scanStringFlag_shifted(c, st, flag) ==
    LET n == Len(c.args)
        ev == Event(Here(c, st), c.scope, "StringFlag", GetID(flag))
    IN  IF st.i + flag.NArgs >= n
        THEN [st EXCEPT !.kind = "err", !.log = Append(@, ev),
                        !.err = <<"Error: incorrect arguments usage">>]
        ELSE LET values == [j \in 1..flag.NArgs |-> c.args[st.i + j]]
                 taken == [j \in 1..flag.NArgs |->
                             Event(Here(c, st) + j, c.scope, "value", GetID(flag))]
             IN  [st EXCEPT !.i = st.i + flag.NArgs + 1,
                            !.argsMap = Put(@, GetID(flag), SliceValue(values)),
                            !.log = Append(@, ev) \o taken]

\* scanStringFlag refusing a value that is a key of reprMap.
scanStringFlag_lookup(c, st, flag) ==
    LET n == Len(c.args)
        ev == Event(Here(c, st), c.scope, "StringFlag", GetID(flag))
    IN  IF \/ st.i + flag.NArgs >= n
           \/ \E j \in 1..flag.NArgs : reprMapOf(c.list, c.args[st.i + j + 1]) # 0
        THEN [st EXCEPT !.kind = "err", !.log = Append(@, ev),
                        !.err = <<"Error: incorrect arguments usage">>]
        ELSE LET values == [j \in 1..flag.NArgs |-> c.args[st.i + j + 1]]
                 taken == [j \in 1..flag.NArgs |->
                             Event(Here(c, st) + j, c.scope, "value", GetID(flag))]
             IN  [st EXCEPT !.i = st.i + flag.NArgs + 1,
                            !.argsMap = Put(@, GetID(flag), SliceValue(values)),
                            !.log = Append(@, ev) \o taken]

\* A StringFlag takes the next NArgs tokens as they are.
scanStringFlag(c, st, flag) ==
    LET n == Len(c.args)
        ev == Event(Here(c, st), c.scope, "StringFlag", GetID(flag))
    IN  IF st.i + flag.NArgs >= n
        THEN [st EXCEPT !.kind = "err", !.log = Append(@, ev),
                        !.err = <<"Error: incorrect arguments usage">>]
        ELSE LET values == [j \in 1..flag.NArgs |-> c.args[st.i + j + 1]]
                 taken == [j \in 1..flag.NArgs |->
                             Event(Here(c, st) + j, c.scope, "value", GetID(flag))]
             IN  [st EXCEPT !.i = st.i + flag.NArgs + 1,
                            !.argsMap = Put(@, GetID(flag), SliceValue(values)),
                            !.log = Append(@, ev) \o taken]

\* scanBoolFlag storing under the short name.
scanBoolFlag_short(c, st, flag) ==
    [st EXCEPT !.i = st.i + 1,
               !.argsMap = Put(@, flag.Short, BoolValue(TRUE)),
               !.log = Append(@, Event(Here(c, st), c.scope, "BoolFlag", GetID(flag)))]

scanBoolFlag(c, st, flag) ==
    [st EXCEPT !.i = st.i + 1,
               !.argsMap = Put(@, GetID(flag), BoolValue(TRUE)),
               !.log = Append(@, Event(Here(c, st), c.scope, "BoolFlag", GetID(flag)))]

\* scanHelpFlag without the exit: the loop goes on.
scanHelpFlag_goesOn(c, st, flag) ==
    [st EXCEPT !.i = st.i + 1,
               !.log = Append(@, Event(Here(c, st), c.scope, "HelpFlag", GetID(flag)))]

\* The help flag ends the scan: PrintHelp and os.Exit(0).
scanHelpFlag(c, st, flag) ==
    [st EXCEPT !.kind = "help",
               !.log = Append(@, Event(Here(c, st), c.scope, "HelpFlag", GetID(flag)))]

\* scanPositional choosing the positional by the index of the token.
scanPositional_byIndex(c, st) ==
    LET tok == c.args[st.i + 1]
    IN  IF st.nPosArg = 0
        THEN [st EXCEPT !.kind = "err",
                        !.log = Append(@, Event(Here(c, st), c.scope, "unrecognized", tok)),
                        !.err = <<"Error: unrecognized argument '", tok, "'">>]
        ELSE LET k == IF st.i + 1 > Len(c.posArgs) THEN Len(c.posArgs) ELSE st.i + 1
                 pArg == c.list[c.posArgs[k]]
             IN  [st EXCEPT !.i = st.i + 1,
                            !.argsMap = Put(@, GetID(pArg), StringValue(tok)),
                            !.nPosArg = st.nPosArg - 1,
                            !.log = Append(@, Event(Here(c, st), c.scope,
                                                    "PositionalArg", GetID(pArg)))]

\* A token that is no representation goes to the next free positional.
scanPositional(c, st) ==
    LET tok == c.args[st.i + 1]
    IN  IF st.nPosArg = 0
        THEN [st EXCEPT !.kind = "err",
                        !.log = Append(@, Event(Here(c, st), c.scope, "unrecognized", tok)),
                        !.err = <<"Error: unrecognized argument '", tok, "'">>]
        ELSE LET pArg == c.list[c.posArgs[Len(c.posArgs) - st.nPosArg + 1]]
             IN  [st EXCEPT !.i = st.i + 1,
                            !.argsMap = Put(@, GetID(pArg), StringValue(tok)),
                            !.nPosArg = st.nPosArg - 1,
                            !.log = Append(@, Event(Here(c, st), c.scope,
                                                    "PositionalArg", GetID(pArg)))]

\* The number of tokens after index i that come before the next key of reprMap.
RECURSIVE listLength(_, _)
listLength(c, i) ==
    IF i + 1 >= Len(c.args) \/ reprMapOf(c.list, c.args[i + 2]) # 0 THEN 0
    ELSE 1 + listLength(c, i + 1)

\* scanListFlag leaving the index on the first item.
scanListFlag_rescan(c, st, flag) ==
    LET m == listLength(c, st.i)
        values == [j \in 1..m |-> c.args[st.i + j + 1]]
        taken == [j \in 1..m |-> Event(Here(c, st) + j, c.scope, "item", GetID(flag))]
    IN  [st EXCEPT !.i = st.i + 1,
                   !.argsMap = Put(@, GetID(flag), SliceValue(values)),
                   !.log = Append(@, Event(Here(c, st), c.scope, "ListFlag", GetID(flag)))
                           \o taken]

\* A ListFlag takes the following tokens up to the next known representation or
\* command name of the scope.
scanListFlag(c, st, flag) ==
    LET m == listLength(c, st.i)
        values == [j \in 1..m |-> c.args[st.i + j + 1]]
        taken == [j \in 1..m |-> Event(Here(c, st) + j, c.scope, "item", GetID(flag))]
    IN  [st EXCEPT !.i = st.i + m + 1,
                   !.argsMap = Put(@, GetID(flag), SliceValue(values)),
                   !.log = Append(@, Event(Here(c, st), c.scope, "ListFlag", GetID(flag)))
                           \o taken]

\* missingRequired walking the free positionals from the last one.
missingRequired_fromLast(list, posArgs, i) ==
    LET owing == {j \in 1..i : list[posArgs[Len(posArgs) - j + 1]].Required}
    IN  IF owing = {} THEN NoError
        ELSE LET j == CHOOSE m \in owing : \A o \in owing : m <= o
             IN  <<"Error: missing required positional argument '",
                   list[posArgs[Len(posArgs) - j + 1]].Name, "'">>

\* The first required positional among the nPosArg that were left without a value.
RECURSIVE missingRequired(_, _, _)
missingRequired(list, posArgs, i) ==
    IF i <= 0 THEN NoError
    ELSE LET pArg == list[posArgs[Len(posArgs) - i + 1]]
         IN  IF pArg.Required
             THEN <<"Error: missing required positional argument '", pArg.Name, "'">>
             ELSE missingRequired(list, posArgs, i - 1)

checkRequired(c, st) ==
    LET err == missingRequired(c.list, c.posArgs, st.nPosArg)
    IN  IF err # NoError THEN [st EXCEPT !.kind = "err", !.err = err]
        ELSE [st EXCEPT !.kind = "ok"]

RECURSIVE Command_parseArgs(_, _, _, _, _)

\* scanCommand storing what the command returned whatever its kind.
scanCommand_storesHelp(c, st, cmd) ==
    LET sub == Append(c.scope, cmd.name)
        ev == Event(Here(c, st), c.scope, "Command", GetID(cmd))
        r == Command_parseArgs(cmd, SubSeq(c.args, st.i + 2, Len(c.args)),
                               Here(c, st), sub, c.srt)
        seen == [st EXCEPT !.log = Append(@, ev) \o r.log,
                           !.visited = @ \cup r.visited]
    IN  CASE r.kind = "err" -> [seen EXCEPT !.kind = "err", !.err = r.err]
          [] OTHER -> [seen EXCEPT !.kind = "done", !.i = Len(c.args),
                                   !.argsMap = Put(@, GetID(cmd), MapValue(r.argsMap))]

\* A command parses everything after its token; its map is stored under its id
\* and the scope's own loop is over.  Help asked inside it goes up with the
\* command added to the trace; an error goes up as the command returned it.
scanCommand(c, st, cmd) ==
    LET sub == Append(c.scope, cmd.name)
        ev == Event(Here(c, st), c.scope, "Command", GetID(cmd))
        r == Command_parseArgs(cmd, SubSeq(c.args, st.i + 2, Len(c.args)),
                               Here(c, st), sub, c.srt)
        seen == [st EXCEPT !.log = Append(@, ev) \o r.log,
                           !.visited = @ \cup r.visited]
    IN  CASE r.kind = "err" -> [seen EXCEPT !.kind = "err", !.err = r.err]
          [] r.kind = "help" -> [seen EXCEPT !.kind = "help",
                                             !.trace = <<cmd.name>> \o r.trace]
          [] OTHER -> [seen EXCEPT !.kind = "done", !.i = Len(c.args),
                                   !.argsMap = Put(@, GetID(cmd), MapValue(r.argsMap))]

\* One turn of the loop over the tokens.
scanToken(c, st) ==
    LET k == reprMapOf(c.list, c.args[st.i + 1])
    IN  IF k = 0 THEN scanPositional(c, st)
        ELSE LET arg == c.list[k]
             IN  CASE getOrder(arg) = orderStringFlag -> scanStringFlag(c, st, arg)
                   [] getOrder(arg) = orderBoolFlag -> scanBoolFlag(c, st, arg)
                   [] getOrder(arg) = orderHelpFlag -> scanHelpFlag(c, st, arg)
                   [] getOrder(arg) = orderListFlag -> scanListFlag(c, st, arg)
                   [] getOrder(arg) = orderCommand -> scanCommand(c, st, arg)

RECURSIVE scanFrom(_, _)
scanFrom(c, st) ==
    IF st.kind \in {"err", "help"} THEN st
    ELSE IF st.kind = "done" \/ st.i >= Len(c.args) THEN checkRequired(c, st)
    ELSE scanFrom(c, scanToken(c, st))

\* The scan of one scope: args are its tokens, list its sorted collection, base
\* the number of input tokens before args, srt the sorted collection of every
\* scope.
scanArgs(args, list, base, scope, srt) ==
    LET posArgs == posArgsOf(list)
        c == [args |-> args, list |-> list, posArgs |-> posArgs, base |-> base,
              scope |-> scope, srt |-> srt]
    IN  scanFrom(c, [StartScan(Len(posArgs)) EXCEPT !.visited = {scope}])

\* The scanner a command runs on its tokens.
parseArgs(args, list, base, scope, srt) == scanArgs(args, list, base, scope, srt)

placeholder == "[*]"

\* strings.Replace(errorString, placeholder, placeholder + c.name + " ", 1)
replaceFirst(msg, name) ==
    LET k == CHOOSE m \in 1..Len(msg) :
                 msg[m] = placeholder /\ \A o \in 1..m - 1 : msg[o] # placeholder
    IN  SubSeq(msg, 1, k - 1) \o <<placeholder, name, " ">> \o SubSeq(msg, k + 1, Len(msg))

\* Command.parseArgs returning a fresh map in place of the one it was given.
Command_parseArgs_freshMap(cmd, args, base, scope, srt) ==
    LET r == parseArgs(args, srt[scope], base, scope, srt)
    IN  IF r.kind = "err"
        THEN IF contains(r.err, placeholder)
             THEN [r EXCEPT !.err = replaceFirst(r.err, cmd.name)]
             ELSE [r EXCEPT !.err = r.err \o <<" for command '", placeholder,
                                               cmd.name, "'">>]
        ELSE [r EXCEPT !.argsMap = EmptyMap]

\* Command.parseArgs scanning with the list of the enclosing scope.
Command_parseArgs_parentList(cmd, args, base, scope, srt) ==
    LET r == parseArgs(args, srt[SubSeq(scope, 1, Len(scope) - 1)], base, scope, srt)
    IN  IF r.kind = "err"
        THEN IF contains(r.err, placeholder)
             THEN [r EXCEPT !.err = replaceFirst(r.err, cmd.name)]
             ELSE [r EXCEPT !.err = r.err \o <<" for command '", placeholder,
                                               cmd.name, "'">>]
        ELSE r

Command_parseArgs(cmd, args, base, scope, srt) ==
    LET r == parseArgs(args, srt[scope], base, scope, srt)
    IN  IF r.kind = "err"
        THEN IF contains(r.err, placeholder)
             THEN [r EXCEPT !.err = replaceFirst(r.err, cmd.name)]
             ELSE [r EXCEPT !.err = r.err \o <<" for command '", placeholder,
                                               cmd.name, "'">>]
        ELSE r

-----------------------------------------------------------------------------
(* Parse *)

InputTokens == SubSeq(osArgs, 2, Len(osArgs))

Inputs == UNION {[1..n -> Host.tokens] : n \in 0..MaxLen + Host.more}

\* tokens with the token at index i taken out and put back at index j.
Move(tokens, i, j) ==
    LET rest == Without(tokens, i)
    IN  SubSeq(rest, 1, j - 1) \o <<tokens[i]>> \o SubSeq(rest, j, Len(rest))

Moves(tokens) ==
    {Move(tokens, i, j) : i \in 1..Len(tokens), j \in 1..Len(tokens)}

\* The command lines the host may call Parse with.
NextInputs ==
    IF parses = 0 \/ Host.again = "any" THEN Inputs
    ELSE IF Host.again = "same" THEN {InputTokens}
    ELSE Moves(InputTokens) \cup {InputTokens}

\* Returned handing out the mapping filled so far with the error.
Returned_partial(r) == [kind |-> r.kind, argsMap |-> r.argsMap, err |-> r.err]

\* What the caller of Parse gets back.
Returned(r) ==
    [kind |-> r.kind, argsMap |-> IF r.kind = "ok" THEN r.argsMap ELSE EmptyMap,
     err |-> r.err]

NoOutcome ==
    [kind |-> "none", argsMap |-> EmptyMap, err |-> NoError, trace |-> << >>,
     log |-> << >>]

\* Parse sorts the list, scans os.Args[1:] and returns the map or the error; on
\* the help flag it prints the help and exits.  Only the scopes the scan entered
\* were sorted.
Parse ==
    /\ ~exited /\ parses < Host.parses
    /\ parses' = parses + 1
    /\ \E tokens \in NextInputs, srt \in SortArgsList(argsList) :
          LET r == scanArgs(tokens, srt[Top], 0, Top, srt)
          IN  /\ osArgs' = <<ProjectName>> \o tokens
              /\ argsList' = [s \in DOMAIN argsList |->
                                IF s \in r.visited THEN srt[s] ELSE argsList[s]]
              /\ outcome' = [kind |-> r.kind,
                             argsMap |-> IF r.kind = "ok" THEN r.argsMap ELSE EmptyMap,
                             err |-> r.err, trace |-> r.trace, log |-> r.log]
              /\ exited' = (r.kind = "help")
              /\ history' = Append(history, [tokens |-> tokens, log |-> r.log,
                                              returned |-> Returned(r)])
    /\ UNCHANGED <<prog, pc, regErr, lastCall>>

-----------------------------------------------------------------------------
(* The specification *)

\* NewArgsParser: the list holds the help flag.
Init ==
    /\ prog \in Programs
    /\ pc = 1
    /\ parses = 0
    /\ argsList = [s \in {Top} |-> <<HelpFlag("shows help message and exits")>>]
    /\ regErr = NoError
    /\ osArgs = <<ProjectName>>
    /\ outcome = NoOutcome
    /\ exited = FALSE
    /\ lastCall = NoCall
    /\ history = << >>

Next ==
    \/ NewStringFlag
    \/ NewBoolFlag
    \/ NewListFlag
    \/ NewPositionalArg
    \/ NewCommand
    \/ Command_NewStringFlag
    \/ Command_NewBoolFlag
    \/ Command_NewPositionalArg
    \/ Command_NewSubcommand
    \/ SetHelpFlagMessage
    \/ Command_SetHelpFlagMessage
    \/ Parse

Spec == Init /\ [][Next]_vars

-----------------------------------------------------------------------------
(* Vocabulary of the properties *)

Parsed == parses > 0

NTokens == Len(osArgs) - 1

Tok(i) == osArgs[i + 1]

Log == outcome.log

Events == {Log[k] : k \in 1..Len(Log)}

Dispatched(role) == {e \in Events : e.role = role}

\* The collection of a scope holds an argument of this kind and id that the
\* token represents.
Resolves(scope, type, id, tok) ==
    \E k \in 1..Len(argsList[scope]) :
        LET a == argsList[scope][k]
        IN  a.type = type /\ GetID(a) = id /\ contains(Represent(a), tok)

\* The StringFlags of a scope with this id (one, by the registration checks).
FlagsOf(scope, type, id) ==
    {argsList[scope][k] : k \in {m \in 1..Len(argsList[scope]) :
        argsList[scope][m].type = type /\ GetID(argsList[scope][m]) = id}}

\* Every representation and command name registered in the scope.
Known(scope) ==
    UNION {{Represent(argsList[scope][k])[m] :
                m \in 1..Len(Represent(argsList[scope][k]))} :
           k \in 1..Len(argsList[scope])}

\* The scopes the scan entered: the parser and every command whose token it met.
Entered == {Top} \cup {Append(e.scope, e.id) : e \in Dispatched("Command")}

\* The result mapping of a scope inside the returned mapping.
RECURSIVE mapAt(_, _)
mapAt(aMap, path) ==
    IF path = << >> THEN aMap
    ELSE IF Head(path) \in DOMAIN aMap /\ aMap[Head(path)].t = "map"
    THEN mapAt(aMap[Head(path)].v, Tail(path))
    ELSE EmptyMap

ScopeMap(scope) == mapAt(outcome.argsMap, scope)

\* e is the last time its scope handled its argument.
IsLast(e) ==
    \A o \in Events : (o.scope = e.scope /\ o.role = e.role /\ o.id = e.id) => o.idx <= e.idx

TokensFrom(i, k) == [j \in 1..k |-> Tok(i + j)]

ErrorIs(text) == outcome.kind = "err" /\ outcome.err # << >> /\ outcome.err[1] = text

UsageError == ErrorIs("Error: incorrect arguments usage")

UnrecognizedError == ErrorIs("Error: unrecognized argument '")

MissingError == ErrorIs("Error: missing required positional argument '")

-----------------------------------------------------------------------------
(* StringFlag *)

\* C1 as stated: in a successful parse, wherever a representation of a StringFlag
\* of the parser stands in the input with arity tokens after it, the result holds
\* those tokens under the flag's id.
C1_AsStated ==
    (Parsed /\ outcome.kind = "ok") =>
        \A i \in 1..NTokens : \A k \in 1..Len(argsList[Top]) :
            LET f == argsList[Top][k]
            IN  (f.type = "StringFlag" /\ contains(Represent(f), Tok(i))
                    /\ i + f.NArgs <= NTokens)
                => /\ IsPresent(outcome.argsMap, GetID(f))
                   /\ outcome.argsMap[GetID(f)] = SliceValue(TokensFrom(i, f.NArgs))

\* C1: in a successful parse, for the last token that the scan of a scope
\* dispatched as a StringFlag of arity k, the mapping of that scope holds under the
\* flag's id (name if present, else short) exactly the k tokens that follow it,
\* verbatim and in input order.
C1_RoundTrip ==
    (Parsed /\ outcome.kind = "ok") =>
        \A e \in Dispatched("StringFlag") :
            /\ Resolves(e.scope, "StringFlag", e.id, Tok(e.idx))
            /\ \A f \in FlagsOf(e.scope, "StringFlag", e.id) :
                 /\ e.id = (IF f.Name # "" THEN f.Name ELSE f.Short)
                 /\ f.NArgs >= 1 /\ e.idx + f.NArgs <= NTokens
                 /\ IsLast(e) =>
                      /\ IsPresent(ScopeMap(e.scope), e.id)
                      /\ ScopeMap(e.scope)[e.id] = SliceValue(TokensFrom(e.idx, f.NArgs))

\* A flag of two values given by its short form, with both values stored.
C1_Witness ==
    /\ Parsed /\ outcome.kind = "ok"
    /\ \E e \in Dispatched("StringFlag") :
          /\ Tok(e.idx) = "-hi" /\ e.idx + 2 <= NTokens
          /\ \E f \in FlagsOf(e.scope, "StringFlag", e.id) : f.NArgs = 2
          /\ ScopeMap(e.scope)[e.id] = SliceValue(<<Tok(e.idx + 1), Tok(e.idx + 2)>>)

\* C2 as stated: a StringFlag dispatched with fewer than arity tokens after it
\* fails the parse with the usage error, and the error names the representation
\* found in the input; with enough tokens after it there is no usage error.
C2_AsStated ==
    Parsed =>
        \A e \in Dispatched("StringFlag") :
            \A f \in FlagsOf(e.scope, "StringFlag", e.id) :
                IF NTokens - e.idx < f.NArgs
                THEN UsageError /\ contains(outcome.err, Tok(e.idx))
                ELSE ~(UsageError /\ IsLast(e) /\ e = Log[Len(Log)])

\* C3 as stated: a token that matches no representation of the scope scanning it,
\* met when the scope has no free positional, fails the parse with the
\* unrecognized-argument error that quotes exactly that token.
C3_AsStated ==
    Parsed =>
        \A e \in Dispatched("unrecognized") :
            /\ UnrecognizedError
            /\ Len(outcome.err) >= 3
            /\ outcome.err[2] = Tok(e.idx) /\ outcome.err[3] = "'"

-----------------------------------------------------------------------------
(* Positionals *)

\* The positional slots of a scope, in the order of its list.
Slots(scope) ==
    LET list == argsList[scope]
    IN  [k \in 1..Len(posArgsOf(list)) |-> list[posArgsOf(list)[k]]]

\* The names of the positionals the host registered in a scope, required or
\* optional ones, in the order of its calls.
Registered(scope, required) ==
    LET made == SubSeq(Host.calls, 1, pc - 1)
        mine == SelectSeq(made, LAMBDA r :
                    /\ r.op = "NewPositionalArg" /\ r.scope = scope
                    /\ r.arg.Required = required
                    /\ \E k \in 1..Len(argsList[scope]) : argsList[scope][k] = r.arg)
    IN  [k \in 1..Len(mine) |-> mine[k].arg.Name]

\* The tokens a scope took as positional values, in input order.
PositionalEvents(scope) ==
    SelectSeq(Log, LAMBDA e : e.scope = scope /\ e.role = "PositionalArg")

Assigned(scope) ==
    {PositionalEvents(scope)[k].id : k \in 1..Len(PositionalEvents(scope))}

\* The scopes with a required positional that got no value.
Owing ==
    {scope \in Entered : \E k \in 1..Len(Slots(scope)) :
        Slots(scope)[k].Required /\ Slots(scope)[k].Name \notin Assigned(scope)}

FirstMissing(scope) ==
    LET k == CHOOSE m \in 1..Len(Slots(scope)) :
                 /\ Slots(scope)[m].Required /\ Slots(scope)[m].Name \notin Assigned(scope)
                 /\ \A o \in 1..m - 1 :
                      ~(Slots(scope)[o].Required /\ Slots(scope)[o].Name \notin Assigned(scope))
    IN  Slots(scope)[k].Name

\* Every loop ran to the end of its tokens: the last token handled was not an
\* unrecognized one, a StringFlag short of values or the help flag.
Completed ==
    /\ Parsed
    /\ Log # << >> => Log[Len(Log)].role \notin {"unrecognized", "StringFlag", "HelpFlag"}

\* C5: a parse succeeds only if every required positional of every scope it
\* entered got a value.  When the scan completed and some required positional
\* got none, the parse fails with the missing-positional error, which names the
\* first such positional, in slot order, of the innermost scope that has one.  A
\* positional without a value is absent from the result, and an optional one
\* causes no error.
C5_Required ==
    Parsed =>
        /\ outcome.kind = "ok" =>
             \A scope \in Entered : \A k \in 1..Len(Slots(scope)) :
                 LET a == Slots(scope)[k]
                 IN  /\ a.Required => IsPresent(ScopeMap(scope), a.Name)
                     /\ IsPresent(ScopeMap(scope), a.Name) <=> a.Name \in Assigned(scope)
        /\ Completed =>
             IF Owing = {} THEN outcome.kind = "ok"
             ELSE LET scope == CHOOSE o \in Owing : \A q \in Owing : Len(q) <= Len(o)
                  IN  /\ MissingError
                      /\ outcome.err[2] = FirstMissing(scope) /\ outcome.err[3] = "'"
        /\ MissingError => (Completed /\ Owing # {})

\* Two required positionals and one positional token: the error names the second.
C5_Witness ==
    /\ Parsed /\ MissingError
    /\ Len(Slots(Top)) >= 2 /\ Slots(Top)[1].Required /\ Slots(Top)[2].Required
    /\ Len(PositionalEvents(Top)) = 1
    /\ outcome.err[2] = Slots(Top)[2].Name

-----------------------------------------------------------------------------
(* BoolFlag *)

BoolFlags(scope) ==
    {argsList[scope][k] : k \in {m \in 1..Len(argsList[scope]) :
                                     argsList[scope][m].type = "BoolFlag"}}

\* C6: in a successful parse the mapping of every scope holds a BoolFlag's id
\* exactly when the scan of that scope dispatched one of the flag's
\* representations, and the value stored is true, never false.
C6_BoolFlag ==
    (Parsed /\ outcome.kind = "ok") =>
        \A scope \in Entered : \A f \in BoolFlags(scope) :
            LET id == IF f.Name # "" THEN f.Name ELSE f.Short
                hits == {e \in Dispatched("BoolFlag") : e.scope = scope /\ e.id = id}
            IN  /\ \A e \in hits : contains(Represent(f), Tok(e.idx))
                /\ IsPresent(ScopeMap(scope), id) <=> hits # {}
                /\ IsPresent(ScopeMap(scope), id) => ScopeMap(scope)[id] = BoolValue(TRUE)

\* A BoolFlag given by its short form and stored as true under its name.
C6_Witness ==
    /\ Parsed /\ outcome.kind = "ok"
    /\ \E e \in Dispatched("BoolFlag") :
          /\ Tok(e.idx) # "--" \o e.id
          /\ IsPresent(ScopeMap(e.scope), e.id)
          /\ ScopeMap(e.scope)[e.id] = BoolValue(TRUE)

-----------------------------------------------------------------------------
(* ListFlag *)

\* The first index after i whose token is a representation or a command name of
\* the scope, and the index after the last token when there is none.
NextKnown(scope, i) ==
    LET hits == {j \in i + 1..NTokens : Tok(j) \in Known(scope)}
    IN  IF hits = {} THEN NTokens + 1 ELSE CHOOSE j \in hits : \A o \in hits : j <= o

DispatchRoles == {"StringFlag", "ListFlag", "BoolFlag", "HelpFlag", "Command"}

\* C7: a dispatched ListFlag takes the tokens that follow it up to, and not
\* including, the first token that is a representation or a command name of its
\* scope, or up to the end of the input; that token is dispatched, not taken.  In
\* a successful parse the mapping of the scope holds, under the id of the flag,
\* the tokens its last dispatch took, in input order: the empty sequence when it
\* took none.
C7_ListFlag ==
    Parsed =>
        \A e \in Dispatched("ListFlag") :
            LET stop == NextKnown(e.scope, e.idx)
            IN  /\ Resolves(e.scope, "ListFlag", e.id, Tok(e.idx))
                /\ \A j \in e.idx + 1..stop - 1 :
                     Event(j, e.scope, "item", e.id) \in Events
                /\ \A o \in Events : o.idx = stop => o.role \in DispatchRoles
                /\ (outcome.kind = "ok" /\ IsLast(e)) =>
                     /\ IsPresent(ScopeMap(e.scope), e.id)
                     /\ ScopeMap(e.scope)[e.id]
                            = SliceValue(TokensFrom(e.idx, stop - 1 - e.idx))

\* A list of one value that ends at a command name.
C7_Witness ==
    /\ Parsed /\ outcome.kind = "ok"
    /\ \E e \in Dispatched("ListFlag") :
          /\ e.idx + 2 <= NTokens
          /\ Tok(e.idx + 1) \notin Known(e.scope)
          /\ Resolves(e.scope, "Command", Tok(e.idx + 2), Tok(e.idx + 2))
          /\ ScopeMap(e.scope)[e.id] = SliceValue(<<Tok(e.idx + 1)>>)

-----------------------------------------------------------------------------
(* Commands *)

IsPrefix(p, q) == Len(p) <= Len(q) /\ SubSeq(q, 1, Len(p)) = p

\* The ids a scope stored a value under.
Keys(scope) ==
    {e.id : e \in {o \in Events : o.scope = scope /\ o.role \in
                      {"StringFlag", "ListFlag", "BoolFlag", "PositionalArg", "Command"}}}

\* C8: once a token matches a command of the scope scanning it, every later
\* token is handled by the collection of that command (or of a command below
\* it) and the parent scope handles none.  In a successful parse every token is
\* handled exactly once, the mapping of each scope holds exactly the ids the
\* scope stored, so the parent keeps what it collected before the command, and
\* the command's id holds the nested mapping: the empty one when no token
\* follows.
C8_Command ==
    Parsed =>
        /\ \A e \in Dispatched("Command") :
             LET sub == Append(e.scope, e.id)
             IN  /\ Resolves(e.scope, "Command", e.id, Tok(e.idx))
                 /\ sub \in DOMAIN argsList
                 /\ \A o \in Events :
                      /\ o.idx > e.idx => IsPrefix(sub, o.scope)
                      /\ o.scope = e.scope => o.idx <= e.idx
                 /\ outcome.kind = "ok" =>
                      /\ IsPresent(ScopeMap(e.scope), e.id)
                      /\ ScopeMap(e.scope)[e.id].t = "map"
                      /\ e.idx = NTokens => ScopeMap(e.scope)[e.id] = MapValue(EmptyMap)
        /\ outcome.kind = "ok" =>
             /\ \A i \in 1..NTokens : Cardinality({e \in Events : e.idx = i}) = 1
             /\ \A scope \in Entered : DOMAIN ScopeMap(scope) = Keys(scope)

\* A flag of the parent before the command and a value of the command after it.
C8_Witness ==
    /\ Parsed /\ outcome.kind = "ok"
    /\ \E e \in Dispatched("Command") :
          /\ 1 < e.idx /\ e.idx < NTokens
          /\ Cardinality(DOMAIN ScopeMap(e.scope)) = 2
          /\ ScopeMap(e.scope)[e.id].t = "map"
          /\ DOMAIN ScopeMap(e.scope)[e.id].v # {}

\* The input is a command of the parser followed by a token that the parser
\* knows and the command does not.
CommandThenParentToken ==
    /\ Parsed /\ NTokens = 2
    /\ Resolves(Top, "Command", Tok(1), Tok(1))
    /\ <<Tok(1)>> \in DOMAIN argsList
    /\ Tok(2) \in Known(Top) \ Known(<<Tok(1)>>)

\* C9 as stated: for the input [cmd, -x], with -x a representation of the parent
\* scope only, the parse fails as unrecognized inside cmd.
C9_AsStated == CommandThenParentToken => UnrecognizedError

\* C9: a token is dispatched only as an argument of the scope that is scanning
\* it; a token that is no representation of that scope is a positional value, a
\* flag value or unrecognized there, whatever other scopes register.  For the
\* input [cmd, -x], with -x a representation of the parent scope only, -x is the
\* value of the first positional of cmd, and the parse fails as unrecognized
\* inside cmd when cmd has no positional.
C9_Scoping ==
    Parsed =>
        /\ \A e \in Events :
             /\ e.role \in DispatchRoles => Resolves(e.scope, e.role, e.id, Tok(e.idx))
             /\ Tok(e.idx) \notin Known(e.scope) =>
                  e.role \in {"PositionalArg", "unrecognized", "value", "item"}
        /\ CommandThenParentToken =>
             LET sub == <<Tok(1)>>
             IN  IF Len(Slots(sub)) = 0
                 THEN /\ UnrecognizedError /\ outcome.err[2] = Tok(2)
                      /\ Event(2, sub, "unrecognized", Tok(2)) \in Events
                 ELSE /\ Event(2, sub, "PositionalArg", Slots(sub)[1].Name) \in Events
                      /\ ~UnrecognizedError
                      /\ outcome.kind = "ok" =>
                           ScopeMap(sub)[Slots(sub)[1].Name] = StringValue(Tok(2))

\* The parent's flag after a command that has no positional: unrecognized.
C9_Witness ==
    /\ CommandThenParentToken /\ UnrecognizedError
    /\ Len(Slots(<<Tok(1)>>)) = 0
    /\ Resolves(Top, "BoolFlag", "t", Tok(2))

-----------------------------------------------------------------------------
(* The help flag *)

HelpTokens == {"-h", "--help"}

\* C10: when the scan dispatches a token as the help flag, the outcome of the
\* parse is the help outcome: that token is the last one handled, no error is
\* reported, no mapping is returned and the program exits, whatever follows the
\* token and whatever positional is left without a value.  A parse whose first
\* token is -h or --help always ends so.
C10_Help ==
    Parsed =>
        /\ outcome.kind = "help" <=> Dispatched("HelpFlag") # {}
        /\ \A e \in Dispatched("HelpFlag") :
             /\ Tok(e.idx) \in HelpTokens
             /\ e = Log[Len(Log)]
             /\ \A o \in Events : o.idx <= e.idx
             /\ outcome.err = NoError /\ outcome.argsMap = EmptyMap
             /\ exited
        /\ (NTokens >= 1 /\ Tok(1) \in HelpTokens) => outcome.kind = "help"

\* Help asked after one value, with a token after it and a required positional
\* left without a value.
C10_Witness ==
    /\ Parsed /\ outcome.kind = "help"
    /\ \E e \in Dispatched("HelpFlag") : 1 < e.idx /\ e.idx < NTokens
    /\ Owing # {}

-----------------------------------------------------------------------------
(* Registration: vocabulary *)

\* A step that is a registration call (New... on the parser or on a command).
RegistrationOps ==
    {"NewStringFlag", "NewBoolFlag", "NewListFlag", "NewPositionalArg", "NewCommand"}

Registers == pc' = pc + 1 /\ lastCall'.op \in RegistrationOps

\* The argument the call offers, and the collection it was offered to.
Candidate(call) ==
    IF call.op = "NewCommand" THEN Command(call.arg.Name, call.arg.Help) ELSE call.arg

Target(call) == argsList[call.scope]

SharesId(a, b) == GetID(a) = GetID(b)

SharesRepresentation(a, b) ==
    \E i \in 1..Len(Represent(a)) : contains(Represent(b), Represent(a)[i])

Rejected == regErr' # NoError /\ argsList' = argsList

IdError(id) == <<"Error: identifier '", id, "' already exists">>

RepresentationError(r) == <<"Error: representation '", r, "' already exists">>

\* The latest call was op with argument arg and it succeeded.
Accepted(op, arg) == lastCall.op = op /\ lastCall.arg = arg /\ regErr = NoError

\* The step calls op with argument arg on the scope of the latest call.
ThenCalls(op, arg) ==
    lastCall'.op = op /\ lastCall'.arg = arg /\ lastCall'.scope = lastCall.scope

-----------------------------------------------------------------------------
(* Uniqueness of ids and representations *)

Unique(list) ==
    \A i, j \in 1..Len(list) :
        i # j => ~SharesId(list[i], list[j]) /\ ~SharesRepresentation(list[i], list[j])

\* The collection the step registers in holds its help flag and the argument
\* of the latest call, nothing else.
SecondOfTwo == Len(Target(lastCall')) = 2

RejectsClash ==
    Registers =>
        /\ (\E k \in 1..Len(Target(lastCall')) :
               \/ SharesId(Target(lastCall')[k], Candidate(lastCall'))
               \/ SharesRepresentation(Target(lastCall')[k], Candidate(lastCall')))
             => Rejected
        /\ (Accepted("NewStringFlag", StringFlag("", "hi", 0, << >>, ""))
              /\ ThenCalls("NewStringFlag", StringFlag("hi", "", 0, << >>, ""))
              /\ SecondOfTwo)
             => regErr' = IdError("hi")
        /\ (Accepted("NewStringFlag", StringFlag("", "n", 0, << >>, ""))
              /\ ThenCalls("NewStringFlag", StringFlag("name", "n", 2, <<"first">>, ""))
              /\ SecondOfTwo)
             => regErr' = RepresentationError("-n")
        /\ (Accepted("NewStringFlag", StringFlag("name", "n", 2, <<"first">>, ""))
              /\ ThenCalls("NewBoolFlag", BoolFlag("n", "", ""))
              /\ SecondOfTwo)
             => regErr' = NoError

\* C11: a registration whose candidate has the id, or one of the
\* representations, of an argument of the collection it is offered to is
\* rejected and leaves the collections as they were; in every reachable state,
\* after any registrations, SetHelpFlagMessage calls and parses, the ids of a
\* collection are pairwise distinct and the representations of two of its
\* arguments are disjoint.  On a collection that holds nothing else, short hi
\* then name hi is rejected for the id, short n then name/n for the
\* representation -n, and name/n then BoolFlag named n is taken.
C11_Unique ==
    /\ [](\A scope \in DOMAIN argsList : Unique(argsList[scope]))
    /\ [][RejectsClash]_vars

\* The representation -n is refused and the collection holds the first flag only.
C11_Witness ==
    /\ lastCall.op = "NewStringFlag"
    /\ lastCall.arg = StringFlag("name", "n", 2, <<"first">>, "")
    /\ regErr = RepresentationError("-n")
    /\ \E k \in 1..Len(argsList[lastCall.scope]) :
          argsList[lastCall.scope][k] = StringFlag("", "n", 1, <<"value">>, "")

-----------------------------------------------------------------------------
(* Uniqueness is per collection *)

AlreadyExists(err) ==
    /\ err # NoError
    /\ err[1] \in {"Error: identifier '", "Error: representation '"}

\* A registration is refused as a duplicate only for an argument of the
\* collection it is offered to.
OwnCollectionOnly ==
    (Registers /\ AlreadyExists(regErr')) =>
        \E k \in 1..Len(Target(lastCall')) :
            \/ SharesId(Target(lastCall')[k], Candidate(lastCall'))
            \/ SharesRepresentation(Target(lastCall')[k], Candidate(lastCall'))

\* The ids and the representations that a scope shares with another scope.
SharedWith(scope, other) ==
    {a \in {argsList[scope][k] : k \in 1..Len(argsList[scope])} :
        /\ a.type # "HelpFlag"
        /\ \E k \in 1..Len(argsList[other]) :
              SharesId(a, argsList[other][k]) \/ SharesRepresentation(a, argsList[other][k])}

SubcommandsInput == <<ProjectName, "run", "-hi", "fast", "-hi", "Roger">>

\* C12: a registration is refused as a duplicate only because of an argument of
\* the collection it is offered to, whatever the parent, the sibling and the
\* child scopes hold; in a parse every dispatched token is an argument of the
\* scope that was scanning it.  With -hi a BoolFlag of run and a StringFlag of
\* run's subcommand fast, [run, -hi, fast, -hi, Roger] gives
\* run -> {hi -> true, fast -> {hello -> [Roger]}}.
C12_PerCollection ==
    /\ [][OwnCollectionOnly]_vars
    /\ [](Parsed =>
            /\ \A e \in Events :
                 e.role \in DispatchRoles =>
                    \E k \in 1..Len(argsList[e.scope]) :
                        /\ argsList[e.scope][k].type = e.role
                        /\ GetID(argsList[e.scope][k]) = e.id
                        /\ contains(Represent(argsList[e.scope][k]), Tok(e.idx))
            /\ (osArgs = SubcommandsInput /\ <<"run", "fast">> \in DOMAIN argsList
                  /\ Len(argsList[<<"run", "fast">>]) > 1) =>
                 /\ outcome.kind = "ok"
                 /\ outcome.argsMap =
                      [k \in {"run"} |->
                         MapValue([j \in {"hi", "fast"} |->
                            IF j = "hi" THEN BoolValue(TRUE)
                            ELSE MapValue([h \in {"hello"} |-> SliceValue(<<"Roger">>)])])])

\* The example, parsed by a host whose scopes share -hi (run and fast) and the id
\* hello (the siblings fast and slow).
C12_Witness ==
    /\ Parsed /\ osArgs = SubcommandsInput /\ outcome.kind = "ok"
    /\ <<"run", "slow">> \in DOMAIN argsList
    /\ SharedWith(<<"run", "fast">>, <<"run">>) # {}
    /\ SharedWith(<<"run", "fast">>, <<"run", "slow">>) # {}

-----------------------------------------------------------------------------
(* Registration: frame *)

RegistrationErrors ==
    {"Error: at least one identifier must be specified",
     "Error: unspecified argument name",
     "Error: unspecified subcommand name",
     "Error: too many value names specified (expected ",
     "Error: identifier '", "Error: representation '"}

\* What a successful call leaves in the collection it was offered to.
AppendsOne ==
    LET scope == lastCall'.scope
        old == argsList[scope]
        new == argsList'[scope]
        cand == Candidate(lastCall')
    IN  /\ Len(new) = Len(old) + 1
        /\ SubSeq(new, 1, Len(old)) = old
        /\ new[Len(new)].type = cand.type
        /\ GetID(new[Len(new)]) = GetID(cand)
        /\ Represent(new[Len(new)]) = Represent(cand)
        /\ cand.type # "StringFlag" => new[Len(new)] = cand
        /\ \A other \in DOMAIN argsList \ {scope} : argsList'[other] = argsList[other]
        /\ DOMAIN argsList' \ DOMAIN argsList =
             IF cand.type = "Command" THEN {Append(scope, cand.name)} ELSE {}

\* C13: a registration call that returns an error leaves every collection as it
\* was (same arguments, same order, same length); one that succeeds appends one
\* argument, the candidate, at the end of the collection it was offered to and
\* changes no argument that was there.
C13_Frame ==
    [][Registers =>
         IF regErr' # NoError
         THEN regErr'[1] \in RegistrationErrors /\ argsList' = argsList
         ELSE AppendsOne]_vars

\* A refused call on a collection that holds more than the help flag.
C13_Witness ==
    /\ lastCall.op \in RegistrationOps /\ regErr # NoError
    /\ Len(argsList[lastCall.scope]) >= 2

-----------------------------------------------------------------------------
(* NewStringFlag: arity and value labels *)

StringFlagCall == Registers /\ lastCall'.op = "NewStringFlag"

EffectiveArity(f) == IF f.NArgs < 1 THEN 1 ELSE f.NArgs

TooManyValueNames(err) ==
    err # NoError /\ err[1] = "Error: too many value names specified (expected "

MissingIdentifier(err) ==
    /\ err # NoError
    /\ err[1] \in {"Error: at least one identifier must be specified",
                   "Error: unspecified argument name",
                   "Error: unspecified subcommand name"}

\* The labels of f followed by as many "value" as the arity asks for.
Labels(f) ==
    [k \in 1..EffectiveArity(f) |-> IF k <= Len(f.Vars) THEN f.Vars[k] ELSE "value"]

StoredStringFlags ==
    UNION {{argsList[scope][k] : k \in {m \in 1..Len(argsList[scope]) :
                                          argsList[scope][m].type = "StringFlag"}} :
             scope \in DOMAIN argsList}

WellFormedStringFlags ==
    \A f \in StoredStringFlags : f.NArgs >= 1 /\ Len(f.Vars) = f.NArgs

\* C14 as stated: the arity is defaulted before any other check, and the call
\* fails with TooManyValueNames exactly when the labels exceed that arity.
C14_AsStated ==
    [][StringFlagCall =>
         (TooManyValueNames(regErr')
            <=> Len(lastCall'.arg.Vars) > EffectiveArity(lastCall'.arg))]_vars

\* C14: NewStringFlag first refuses a flag without name and short; for a flag
\* that has one it treats an arity below 1 as 1 and fails with TooManyValueNames
\* (naming that arity and the number of labels) exactly when the labels exceed
\* it, before it looks for duplicates; a flag it stores has that arity and its
\* labels followed by "value" up to the arity.  Every stored StringFlag has an
\* arity of at least 1 and exactly arity labels.
C14_Arity ==
    /\ []WellFormedStringFlags
    /\ [][StringFlagCall =>
            LET f == lastCall'.arg
                n == EffectiveArity(f)
                new == argsList'[lastCall'.scope]
            IN  /\ (f.Name = "" /\ f.Short = "") =>
                      MissingIdentifier(regErr') /\ ~TooManyValueNames(regErr')
                /\ ~(f.Name = "" /\ f.Short = "") =>
                      (TooManyValueNames(regErr') <=> Len(f.Vars) > n)
                /\ TooManyValueNames(regErr') =>
                      regErr' = <<"Error: too many value names specified (expected ",
                                  ToString(n), ", got ", ToString(Len(f.Vars)), ")">>
                /\ regErr' = NoError =>
                      new[Len(new)] = [f EXCEPT !.NArgs = n, !.Vars = Labels(f)]]_vars

\* Two labels for a flag whose arity was left unspecified: refused, and the
\* collection holds a flag that was stored with a padded label.
C14_Witness ==
    /\ lastCall.op = "NewStringFlag"
    /\ lastCall.arg.NArgs = 0 /\ Len(lastCall.arg.Vars) = 2 /\ lastCall.arg.Short # ""
    /\ regErr = <<"Error: too many value names specified (expected ", "1", ", got ",
                  "2", ")">>
    /\ \E f \in StoredStringFlags : f.NArgs = 2 /\ f.Vars = <<"first", "value">>

-----------------------------------------------------------------------------
(* Identity of the arguments *)

\* The candidate has nothing to be identified by: no name and no short for a
\* flag, no name for a positional or a command.
Unidentified(a) ==
    IF a.type \in {"StringFlag", "ListFlag", "BoolFlag"}
    THEN a.Name = "" /\ a.Short = ""
    ELSE IF a.type = "PositionalArg" THEN a.Name = ""
    ELSE a.type = "Command" /\ a.name = ""

FlagLike == {"StringFlag", "ListFlag", "BoolFlag", "HelpFlag"}

Identified(list) ==
    \A k \in 1..Len(list) :
        /\ GetID(list[k]) # ""
        /\ list[k].type \in FlagLike =>
             /\ Len(Represent(list[k])) >= 1
             /\ \A i \in 1..Len(Represent(list[k])) :
                    Represent(list[k])[i] \notin {"-", "--"}

\* C15: registering a StringFlag, ListFlag or BoolFlag without name and short, or
\* a positional, command or subcommand without name, fails with the missing
\* identifier error of its kind and registers nothing, and no other call fails
\* with it; every argument of every collection has a non-empty id and every
\* flag-like one a representation made from a non-empty name or short.
C15_Identity ==
    /\ [](\A scope \in DOMAIN argsList : Identified(argsList[scope]))
    /\ [][Registers =>
            /\ Unidentified(Candidate(lastCall')) <=> MissingIdentifier(regErr')
            /\ MissingIdentifier(regErr') =>
                 /\ argsList' = argsList
                 /\ regErr' =
                      IF lastCall'.op = "NewCommand"
                      THEN <<"Error: unspecified subcommand name">>
                      ELSE IF lastCall'.op = "NewPositionalArg"
                      THEN <<"Error: unspecified argument name">>
                      ELSE <<"Error: at least one identifier must be specified">>]_vars

\* A subcommand without a name, refused by a command.
C15_Witness ==
    /\ lastCall.op = "NewCommand" /\ lastCall.scope # Top /\ lastCall.arg.Name = ""
    /\ regErr = <<"Error: unspecified subcommand name">>

-----------------------------------------------------------------------------
(* The help flag of a collection *)

HelpFlags(list) == {k \in 1..Len(list) : list[k].type = "HelpFlag"}

OneHelpFlag(list) ==
    /\ Cardinality(HelpFlags(list)) = 1
    /\ \A k \in HelpFlags(list) :
          GetID(list[k]) = "help" /\ Represent(list[k]) = <<"-h", "--help">>

Shadows(a) ==
    \/ GetID(a) = "help"
    \/ contains(Represent(a), "-h") \/ contains(Represent(a), "--help")

SetsHelp == pc' = pc + 1 /\ lastCall'.op = "SetHelpFlagMessage"

\* C16: in every reachable state every collection, the parser's and each
\* command's, holds exactly one HelpFlag, with id help and representations -h
\* and --help; a candidate with the id help or the representation -h or --help
\* is rejected; SetHelpFlagMessage replaces the help flag where it is, with one
\* that carries the message, and leaves the length and every other argument of
\* every collection as they were.
C16_HelpFlag ==
    /\ [](\A scope \in DOMAIN argsList : OneHelpFlag(argsList[scope]))
    /\ [][(Registers /\ Shadows(Candidate(lastCall'))) => Rejected]_vars
    /\ [][SetsHelp =>
            /\ DOMAIN argsList' = DOMAIN argsList
            /\ \A scope \in DOMAIN argsList :
                 /\ Len(argsList'[scope]) = Len(argsList[scope])
                 /\ \A k \in 1..Len(argsList[scope]) :
                      argsList'[scope][k] =
                         IF scope = lastCall'.scope /\ k \in HelpFlags(argsList[scope])
                         THEN HelpFlag(lastCall'.arg)
                         ELSE argsList[scope][k]]_vars

\* The message set after a parse has moved the help flag behind a positional, and
\* a flag with the short h refused after it.
C16_Witness ==
    /\ argsList[Top][1].type = "PositionalArg"
    /\ argsList[Top][2] = HelpFlag("usage")
    /\ lastCall.op = "NewBoolFlag" /\ lastCall.arg.Short = "h"
    /\ regErr = RepresentationError("-h")

-----------------------------------------------------------------------------
(* Ordering: stability *)

Sorts == parses' = parses + 1

IndexOf(list, a) == CHOOSE k \in 1..Len(list) : list[k] = a

SameArguments(old, new) ==
    /\ Len(new) = Len(old)
    /\ \A k \in 1..Len(old) : \E j \in 1..Len(new) : new[j] = old[k]

\* Arguments of equal rank are in new in the order they have in old.
KeepsTies(old, new) ==
    \A i, j \in 1..Len(old) :
        (i < j /\ getOrder(old[i]) = getOrder(old[j])) =>
            IndexOf(new, old[i]) < IndexOf(new, old[j])

\* C17 as stated: the sort of a parse is stable: two arguments of equal rank
\* keep the order they had in the collection (the order of registration, at
\* the first sort), for every collection and every sort.
C17_AsStated ==
    [][Sorts => \A scope \in DOMAIN argsList :
                   /\ SameArguments(argsList[scope], argsList'[scope])
                   /\ KeepsTies(argsList[scope], argsList'[scope])]_vars

\* C18 as stated: a sort leaves in a collection the arguments it held, none
\* added, removed or changed, ordered by rank (required positionals, optional
\* positionals, string flags, list flags, boolean flags, help flag, commands),
\* and leaves a collection that is already ordered as it is.
C18_AsStated ==
    [][Sorts => \A scope \in DOMAIN argsList :
                   /\ SameArguments(argsList[scope], argsList'[scope])
                   /\ scope = Top => IsSortedByOrder(argsList'[scope])
                   /\ IsSortedByOrder(argsList[scope]) =>
                        argsList'[scope] = argsList[scope]]_vars

-----------------------------------------------------------------------------
(* Repeated parses *)

-----------------------------------------------------------------------------
(* Positionals among flags *)

RoleAt(call, i) ==
    LET hits == {k \in 1..Len(call.log) :
                    call.log[k].idx = i /\ call.log[k].scope = Top}
    IN  IF hits = {} THEN "none" ELSE call.log[CHOOSE k \in hits : TRUE].role

\* Tokens from..to of the call are whole groups: BoolFlag tokens and StringFlag
\* tokens with all their values (a StringFlag that lacks values has none taken).
WholeGroups(call, from, to) ==
    /\ from <= to
    /\ \A k \in from..to : RoleAt(call, k) \in {"BoolFlag", "StringFlag", "value"}
    /\ \A k \in from..to : RoleAt(call, k) = "StringFlag" => RoleAt(call, k + 1) = "value"
    /\ RoleAt(call, from) # "value"
    /\ RoleAt(call, to + 1) # "value"

\* later is earlier with the positional token at i moved to j, across whole groups.
MovedAcross(earlier, later, i, j) ==
    /\ i # j
    /\ RoleAt(earlier, i) \in {"PositionalArg", "unrecognized"}
    /\ later.tokens = Move(earlier.tokens, i, j)
    /\ IF i < j THEN WholeGroups(earlier, i + 1, j) ELSE WholeGroups(earlier, j, i - 1)

Related(earlier, later) ==
    \E i, j \in 1..Len(earlier.tokens) : MovedAcross(earlier, later, i, j)

\* C20: in a scope whose flags are StringFlags and BoolFlags, a command line and
\* the one obtained from it by moving a positional token across whole flag
\* groups (a BoolFlag token, or a StringFlag token with its values), in either
\* direction, give the same mapping or the same error.
C20_Move ==
    (/\ Len(history) = 2
     /\ Related(history[1], history[2]) \/ Related(history[2], history[1]))
        => history[1].returned = history[2].returned

\* [x, -hi, y] and [-hi, y, x]: the positional moved behind the flag and its value.
C20_Witness ==
    /\ Len(history) = 2 /\ Len(history[1].tokens) = 3
    /\ MovedAcross(history[1], history[2], 1, 3)
    /\ history[2].returned.kind = "ok"
    /\ DOMAIN history[2].returned.argsMap = {"a", "hello"}

-----------------------------------------------------------------------------
(* Errors of command scopes *)

\* The number of input tokens that stand before the tokens of an entered scope.
ScopeBase(scope) ==
    IF scope = Top THEN 0
    ELSE LET e == CHOOSE o \in Dispatched("Command") : Append(o.scope, o.id) = scope
         IN  e.idx

\* A parse was made and the collections are as it left them (no registration
\* came after it).
AsParsed == Parsed /\ ~Host.late

\* What the scanner of an entered scope returned, before the command of the
\* scope put its name in the message.
ScanOf(scope) ==
    scanArgs(SubSeq(InputTokens, ScopeBase(scope) + 1, NTokens), argsList[scope],
             ScopeBase(scope), scope, argsList)

ErrScopes == {s \in Entered : ScanOf(s).kind = "err"}

\* The innermost scope whose scan failed: the error was raised there.
Origin == CHOOSE s \in ErrScopes : \A o \in ErrScopes : Len(o) <= Len(s)

Original == ScanOf(Origin).err

Punctuation == {" for command '", placeholder, " ", "'"}

\* The pieces of a message that are names, in the order they stand in it.
NamesIn(msg) == SelectSeq(msg, LAMBDA piece : piece \notin Punctuation)

\* C21 as stated: an error raised in the scope of the command path c1 ... cd
\* reaches the caller with the text it was raised with, followed by the names
\* c1 ... cd in that order.
C21_AsStated ==
    (AsParsed /\ outcome.kind = "err" /\ Origin # Top) =>
        /\ IsPrefix(Original, outcome.err)
        /\ NamesIn(SubSeq(outcome.err, Len(Original) + 1, Len(outcome.err))) = Origin

-----------------------------------------------------------------------------
(* Errors end the parse *)

LastParse == history[Len(history)]

\* What Parse returns on other tokens, the collections being as they are.
Rescan(tokens) == Returned(scanArgs(tokens, argsList[Top], 0, Top, argsList))

\* The token the scan stopped at with an error of its own: a token no scope
\* knows with no positional left, or a StringFlag short of values.
Offending ==
    {e \in Events : /\ e = Log[Len(Log)]
                    /\ outcome.kind = "err"
                    /\ e.role \in {"unrecognized", "StringFlag"}}

\* The tails that may follow the offending token: any for an unknown token,
\* any that leaves the flag short of values for a StringFlag.
Tails(e) ==
    LET longest == IF e.role = "unrecognized" THEN MaxLen + Host.more - e.idx
                   ELSE NTokens - e.idx
    IN  UNION {[1..n -> Host.tokens] : n \in 0..longest}

\* C22: Parse returns a mapping and no error, or an error and no mapping.  A
\* usage or unrecognized-argument error is raised at the first token in fault:
\* every token before it was handled, no token after it is looked at, and with
\* any other tokens after it the parse returns the same error.  When the scan
\* of a command scope fails, the scan of every scope around it fails and the
\* caller gets the error and no mapping.
C22_Abort ==
    AsParsed =>
        /\ LastParse.returned.kind = "ok" => LastParse.returned.err = NoError
        /\ LastParse.returned.kind = "err" =>
              LastParse.returned.err # NoError /\ LastParse.returned.argsMap = EmptyMap
        /\ LastParse.returned.kind = outcome.kind
        /\ \A e \in Offending :
              /\ \A o \in Events : o.idx <= e.idx
              /\ \A i \in 1..e.idx : \E o \in Events : o.idx = i
              /\ \A o \in Events : o.role = "unrecognized" => o = e
              /\ \A tail \in Tails(e) :
                    Rescan(SubSeq(InputTokens, 1, e.idx) \o tail) = LastParse.returned
        /\ \A s \in ErrScopes :
              /\ outcome.kind = "err"
              /\ \A o \in Entered : IsPrefix(o, s) => o \in ErrScopes

\* A token that no scope knows, met after a flag was stored and before the
\* last token, inside a command.
C22_Witness ==
    /\ AsParsed /\ UnrecognizedError
    /\ \E e \in Offending : e.idx < NTokens /\ e.scope # Top
    /\ Dispatched("BoolFlag") # {}

-----------------------------------------------------------------------------
(* Which duplicate is reported *)

\* C23 as stated: for a candidate that has the id of an argument of the
\* collection, wherever that argument stands and whatever representations of
\* the candidate are taken, checkIdentifiers returns the duplicate-identifier
\* error; it returns the duplicate-representation error only when no argument
\* of the collection has the id of the candidate.
C23_AsStated ==
    [][Registers =>
        LET list == Target(lastCall')
            b == Candidate(lastCall')
            err == checkIdentifiers(list, b)
            idTaken == \E k \in 1..Len(list) : SharesId(list[k], b)
        IN  /\ idTaken => err = IdError(GetID(b))
            /\ (err # NoError /\ err[1] = "Error: representation '") => ~idTaken]_vars

-----------------------------------------------------------------------------
(* The values of a StringFlag are not looked up *)

EventsAt(i) == {o \in Events : o.idx = i}

\* C24: a StringFlag dispatched with at least arity tokens after it takes
\* exactly the next arity tokens as its values: each of them is handled once,
\* as a value of the flag, whether or not it is a representation or a command
\* name the scope knows; when the parse succeeds the last dispatch of the flag
\* has them stored as they stand; and the token after the last value, if there
\* is one, is the next the scope handles.
C24_Blind ==
    AsParsed =>
        \A e \in Dispatched("StringFlag") :
            \A f \in FlagsOf(e.scope, "StringFlag", e.id) :
                NTokens - e.idx >= f.NArgs =>
                    /\ \A j \in 1..f.NArgs :
                          EventsAt(e.idx + j) =
                              {Event(e.idx + j, e.scope, "value", e.id)}
                    /\ (outcome.kind = "ok" /\ IsLast(e)) =>
                          ScopeMap(e.scope)[e.id] = SliceValue(TokensFrom(e.idx, f.NArgs))
                    /\ e.idx + f.NArgs < NTokens =>
                          \E o \in EventsAt(e.idx + f.NArgs + 1) :
                              o.scope = e.scope /\ o.role \notin {"value", "item"}

\* The value taken is the help flag's representation: it is stored, no help is
\* given, and the token that follows goes to a positional.
C24_Witness ==
    /\ AsParsed /\ outcome.kind = "ok" /\ ~exited
    /\ \E e \in Dispatched("StringFlag") :
          /\ Tok(e.idx + 1) \in HelpTokens \cap Known(e.scope)
          /\ ScopeMap(e.scope)[e.id] = SliceValue(<<Tok(e.idx + 1)>>)
          /\ \E o \in Dispatched("PositionalArg") : o.idx = e.idx + 2
    /\ Dispatched("BoolFlag") = {} /\ Dispatched("ListFlag") = {}

-----------------------------------------------------------------------------
(* A flag given more than once *)

FlagRoles == {"StringFlag", "ListFlag", "BoolFlag"}

\* The number of tokens the dispatch took after its own: the values of a
\* StringFlag, the items of a ListFlag.
TakenBy(e) ==
    Cardinality({j \in e.idx + 1..NTokens :
        \A i \in e.idx + 1..j :
            \E o \in EventsAt(i) :
                o.scope = e.scope /\ o.id = e.id /\ o.role \in {"value", "item"}})

ValueOf(e) ==
    IF e.role = "BoolFlag" THEN BoolValue(TRUE)
    ELSE SliceValue(TokensFrom(e.idx, TakenBy(e)))

Twice == \E e, o \in Events :
             e.role \in FlagRoles /\ o.role = e.role /\ o.scope = e.scope
                 /\ o.id = e.id /\ o.idx # e.idx

\* C25: in a successful parse the mapping of a scope holds, for each flag the
\* scope dispatched, what its last dispatch took, however many times and by
\* whichever representations it was dispatched before.  A failed parse fails
\* on a token no scope knows, a StringFlag short of values or a positional
\* left out, never on a flag for being repeated.  [-t, -l, --list, a] gives
\* list -> [a] and test -> true; [-l, a, b, -t, -l] gives l -> [] and test ->
\* true.
C25_LastWins ==
    AsParsed =>
        /\ outcome.kind = "ok" =>
              \A e \in Events :
                  (e.role \in FlagRoles /\ IsLast(e)) =>
                      /\ IsPresent(ScopeMap(e.scope), e.id)
                      /\ ScopeMap(e.scope)[e.id] = ValueOf(e)
        /\ outcome.kind = "err" => (Offending # {} \/ MissingError)
        /\ (prog = "listfull" /\ pc > Len(Host.calls)
                /\ InputTokens = <<"-t", "-l", "--list", "a">>) =>
              /\ outcome.kind = "ok"
              /\ DOMAIN outcome.argsMap = {"list", "test"}
              /\ outcome.argsMap["list"] = SliceValue(<<"a">>)
              /\ outcome.argsMap["test"] = BoolValue(TRUE)
        /\ (prog = "listpartial" /\ pc > Len(Host.calls)
                /\ InputTokens = <<"-l", "a", "b", "-t", "-l">>) =>
              /\ outcome.kind = "ok"
              /\ DOMAIN outcome.argsMap = {"l", "test"}
              /\ outcome.argsMap["l"] = SliceValue(<< >>)
              /\ outcome.argsMap["test"] = BoolValue(TRUE)

\* The list flag is given twice, with items the first time and none the second.
C25_Witness ==
    /\ AsParsed /\ outcome.kind = "ok" /\ Twice
    /\ prog = "listpartial" /\ pc > Len(Host.calls)
    /\ InputTokens = <<"-l", "a", "b", "-t", "-l">>

-----------------------------------------------------------------------------
(* Help asked inside a command *)

CommandPath ==
    LET cmds == {k \in 1..Len(Log) : Log[k].role = "Command"}
    IN  [n \in 1..Cardinality(cmds) |->
            Log[CHOOSE k \in cmds : Cardinality({o \in cmds : o <= k}) = n].id]

\* C26: when the help flag is dispatched in the scope reached through d command
\* tokens, the outcome of the parse is the help outcome: no error, no mapping,
\* and the trace holds the names of those d commands, outermost first (none
\* for help asked of the parser itself); the scan of every scope around holds
\* no entry for the command it entered.
C26_HelpTrace ==
    AsParsed =>
        \A e \in Dispatched("HelpFlag") :
            /\ outcome.kind = "help"
            /\ outcome.err = NoError /\ outcome.argsMap = EmptyMap
            /\ outcome.trace = e.scope
            /\ outcome.trace = CommandPath
            /\ \A s \in Entered :
                  s # e.scope =>
                      /\ ScanOf(s).kind = "help"
                      /\ ~IsPresent(ScanOf(s).argsMap, e.scope[Len(s) + 1])

\* Help asked of a subcommand, two commands deep.
C26_Witness ==
    /\ AsParsed /\ outcome.kind = "help"
    /\ \E e \in Dispatched("HelpFlag") : Len(e.scope) = 2 /\ outcome.trace = e.scope

-----------------------------------------------------------------------------
(* One pass *)

\* The deepest command the host declared.
TreeDepth ==
    LET deepest == CHOOSE s \in DOMAIN argsList :
                       \A o \in DOMAIN argsList : Len(o) <= Len(s)
    IN  Len(deepest)

HandledAs ==
    {"StringFlag", "BoolFlag", "ListFlag", "HelpFlag", "Command", "value", "item",
     "PositionalArg", "unrecognized"}

\* C27: the scan of any input ends, and it is one pass: the tokens are handled
\* in the order of the input, the index growing from each to the next, each
\* token at most once and in one role, by one scope; the scopes entered are
\* nested one in the other, as many as command tokens were matched, and no
\* deeper than the commands the host declared.
C27_OnePass ==
    AsParsed =>
        /\ outcome.kind \in {"ok", "err", "help"}
        /\ \A k \in 1..Len(Log) - 1 : Log[k].idx < Log[k + 1].idx
        /\ \A k \in 1..Len(Log) : Log[k].idx \in 1..NTokens /\ Log[k].role \in HandledAs
        /\ \A i \in 1..NTokens : Cardinality(EventsAt(i)) <= 1
        /\ \A s, o \in Entered : IsPrefix(s, o) \/ IsPrefix(o, s)
        /\ Cardinality(Entered) = Cardinality(Dispatched("Command")) + 1
        /\ Cardinality(Dispatched("Command")) = Len(CommandPath)
        /\ CommandPath \in Entered
        /\ Len(CommandPath) <= TreeDepth

\* Every token handled: a list flag, its item, and a command that is entered.
C27_Witness ==
    /\ AsParsed /\ outcome.kind = "ok"
    /\ Len(Log) = NTokens
    /\ Len(CommandPath) = 1
    /\ Dispatched("item") # {}

-----------------------------------------------------------------------------
(* The shape of the result *)

\* The value has the shape of the argument's kind.
HasShape(a, val) ==
    CASE a.type = "PositionalArg" -> val.t = "string"
      [] a.type = "StringFlag" -> val.t = "slice" /\ Len(val.v) = a.NArgs
      [] a.type = "ListFlag" -> val.t = "slice"
      [] a.type = "BoolFlag" -> val.t = "bool" /\ val.v = TRUE
      [] a.type = "Command" -> val.t = "map"
      [] OTHER -> FALSE

Nested(aMap) == {key \in DOMAIN aMap : aMap[key].t = "map"}

\* C28: in the mapping a successful parse returns, at every level, every key
\* is the id of an argument of the scope of that level other than its help
\* flag, its value has the shape of that argument's kind, and at most one
\* value is a nested mapping, so that GetCommandMap has one possible answer.
C28_Shape ==
    (AsParsed /\ outcome.kind = "ok") =>
        \A s \in Entered :
            /\ \A key \in DOMAIN ScopeMap(s) :
                  \E k \in 1..Len(argsList[s]) :
                      /\ GetID(argsList[s][k]) = key
                      /\ HasShape(argsList[s][k], ScopeMap(s)[key])
            /\ Cardinality(Nested(ScopeMap(s))) <= 1
            /\ Cardinality(GetCommandMap(ScopeMap(s))) = 1
            /\ \A key \in Nested(ScopeMap(s)) : Append(s, key) \in Entered

\* The mapping of a command holds a string and the mapping of its subcommand.
C28_Witness ==
    /\ AsParsed /\ outcome.kind = "ok"
    /\ \E s \in Entered :
          /\ s # Top
          /\ Nested(ScopeMap(s)) # {}
          /\ \E key \in DOMAIN ScopeMap(s) : ScopeMap(s)[key].t = "string"
          /\ \A r \in GetCommandMap(ScopeMap(s)) : r.err = NoError

-----------------------------------------------------------------------------
(* The placeholder of the scope annotation *)

\* c1, " ", c2, " ", ... cd
Spaced(path) ==
    [k \in 1..2 * Len(path) - 1 |-> IF k % 2 = 1 THEN path[(k + 1) \div 2] ELSE " "]

Suffix(path) == <<" for command '", placeholder>> \o Spaced(path) \o <<"'">>

\* C29 as stated: whatever the tokens are, an error raised in a command scope
\* reaches the caller as the message it was raised with, unchanged, followed by
\* the suffix that names the commands of the path.
C29_AsStated ==
    (AsParsed /\ outcome.kind = "err" /\ Origin # Top) =>
        outcome.err = Original \o Suffix(Origin)

-----------------------------------------------------------------------------
(* The order of registration *)

\* One registration call made on a list: the list it leaves and its error.
registerCall(list, call) ==
    LET checked ==
            CASE call.op = "NewStringFlag" -> checkStringFlag(list, call.arg)
              [] call.op = "NewPositionalArg" ->
                    [arg |-> call.arg, err |-> checkPositionalArg(list, call.arg)]
              [] call.op = "NewCommand" ->
                    [arg |-> Command(call.arg.Name, call.arg.Help),
                     err |-> checkCommand(list, call.arg)]
              [] OTHER -> [arg |-> call.arg, err |-> checkBoolFlag(list, call.arg)]
    IN  [list |-> IF checked.err = NoError THEN Append(list, checked.arg) ELSE list,
         err |-> checked.err]

\* A new parser and the calls made on it in order: its list, and the errors
\* the calls returned.
RECURSIVE Replay(_)
Replay(calls) ==
    IF calls = << >>
    THEN [list |-> <<HelpFlag("shows help message and exits")>>, errs |-> << >>]
    ELSE LET before == Replay(SubSeq(calls, 1, Len(calls) - 1))
             last == registerCall(before.list, calls[Len(calls)])
         IN  [list |-> last.list, errs |-> Append(before.errs, last.err)]

\* The hosts that make all their calls on the parser itself.
FlatHosts == {"flags", "pair", "positionals", "move", "listfull", "listpartial"}

PositionalCalls(calls, required) ==
    SelectSeq(calls, LAMBDA call :
        call.op = "NewPositionalArg" /\ call.arg.Required = required)

\* The calls of the host in another order, the required positionals among
\* themselves and the optional ones among themselves in the order they had.
Reorderings ==
    {alt \in Moves(Host.calls) :
        \A required \in BOOLEAN :
            PositionalCalls(alt, required) = PositionalCalls(Host.calls, required)}

\* What a parser with this list may return on the tokens of the latest parse.
OutcomesOf(list) ==
    {Returned(scanArgs(InputTokens, sorted, 0, Top,
                       [s \in DOMAIN argsList |-> IF s = Top THEN sorted ELSE argsList[s]])) :
        sorted \in sortSlice(list)}

Rejections(errs) == {k \in 1..Len(errs) : errs[k] # NoError}

\* C30 as stated: a parser on which the calls of the host were made in another
\* order, the order of the positionals kept, has accepted and rejected alike
\* and returns on every input what this parser returns.
C30_AsStated ==
    (prog \in FlatHosts /\ pc > Len(Host.calls) /\ Parsed) =>
        \A alt \in Reorderings :
            /\ Rejections(Replay(alt).errs) = {} <=> Rejections(Replay(Host.calls).errs) = {}
            /\ OutcomesOf(Replay(alt).list) = OutcomesOf(Replay(Host.calls).list)

====
